---- MODULE Spec2Model ----
(***************************************************************************)
(* Greedy point-label placement (PG-Greedy-Lokal): the geometry helpers,   *)
(* the point grid and rectangle grid, the corner clearance heuristic and   *)
(* the monotone placement greedyPlaceMonotone working on a MonotoneState.  *)
(*                                                                         *)
(* Numbers.  The program computes with float.  The model computes with     *)
(* integers: every coordinate and every label size is a whole number of    *)
(* length units, one unit being 0.0025, so that the cell side 0.05f that   *)
(* chooseFixedCornersByConflicts gives its point grid is 20 and the size   *)
(* 0.02f that greedyPlaceOneLabelPerPoint takes for an empty candidate     *)
(* list is 8.  On such inputs all sums, differences, products, comparisons *)
(* and floor(v / cs) of the program are taken as exact.  The tolerance     *)
(* eps = 1e-6f of the heuristic is smaller than one unit, so "v > eps" is  *)
(* "v > 0" and "a >= b - eps" is "a >= b".                                 *)
(*                                                                         *)
(* Vectors.  A std::vector of n elements is a function on 0..n-1, so that  *)
(* point and candidate indices are those of the source (candidate          *)
(* 4*pid + j belongs to point pid).  The vectors that are only appended to *)
(* and iterated (active, placed, keep, order) are sequences.               *)
(***************************************************************************)
EXTENDS Integers, Sequences, FiniteSets, TLC

\* ---------------------------------------------------------------- bounds
MaxN == 2         \* most points in a point sequence
MaxCoord == 1     \* point coordinates are 0..MaxCoord cells of the corner grid
MaxSize == 2      \* label sizes are 1..MaxSize cells of the corner grid
MaxGrowth == 3    \* maxGrowth is 1..MaxGrowth
MaxRefine == 2    \* maxRefine is 0..MaxRefine
MaxExtra == 1          \* candidates a list may hold beyond four per point
MaxRects == 2          \* rectangles inserted into one index
QMaxDepth == 2         \* maxDepth of the QuadRectIndex of the model
QCap == 1              \* cap of the QuadRectIndex of the model

\* ------------------------------------------------------ program constants
CornerCell == 20  \* cellSize 0.05f of the heuristic's PointGrid
INF == 1000000    \* std::numeric_limits<float>::infinity()
perPoint == 4     \* candidates per point
ShimBase == 8     \* 0.02f, the size greedyPlaceOneLabelPerPoint takes for no candidates
MinAutoSamples == 8  \* the least automatic number of sweep samples

\* ---------------------------------------------------------------- vectors
Size(v) == Cardinality(DOMAIN v)
EmptyVec == [i \in {} |-> 0]
Min2(a, b) == IF a < b THEN a ELSE b
Abs(a) == IF a < 0 THEN -a ELSE a

\* The ascending sequence of a finite set of integers (std::sort + unique).
RECURSIVE SortedSeq(_)
SortedSeq(S) ==
    IF S = {} THEN << >>
    ELSE LET m == CHOOSE x \in S : \A y \in S : x <= y
         IN  << m >> \o SortedSeq(S \ {m})

Range(s) == { s[k] : k \in DOMAIN s }

\* --------------------------------------------------------------- geometry
cellOf(v, cs) == v \div cs

rectContainsPoint(r, x, y) ==
    x > r.xmin /\ x < r.xmax /\ y > r.ymin /\ y < r.ymax

overlapsStrict(a, b) ==
    a.xmin < b.xmax /\ a.xmax > b.xmin /\ a.ymin < b.ymax /\ a.ymax > b.ymin

\* Mutant: only corner 1 extends to the right of the anchor.
getAABB_rightForOneOnly(c) ==
    LET x == c.anchor[1]
        y == c.anchor[2]
        s == c.size
        xmin == IF c.corner = 1 THEN x ELSE x - s
        ymin == IF c.corner >= 2 THEN y ELSE y - s
    IN  [xmin |-> xmin, ymin |-> ymin, xmax |-> xmin + s, ymax |-> ymin + s]

getAABB(c) ==
    LET x == c.anchor[1]
        y == c.anchor[2]
        s == c.size
        xmin == IF c.corner = 1 \/ c.corner = 2 THEN x ELSE x - s
        ymin == IF c.corner >= 2 THEN y ELSE y - s
    IN  [xmin |-> xmin, ymin |-> ymin, xmax |-> xmin + s, ymax |-> ymin + s]

ownerOf(candIndex, pp) == IF pp # 0 THEN candIndex \div pp ELSE 0

generateLabelCandidates(pts, baseSize) ==
    [k \in 0 .. (perPoint * Size(pts) - 1) |->
        [anchor |-> pts[k \div perPoint], size |-> baseSize,
         corner |-> k % perPoint, weight |-> 1, valid |-> FALSE]]

\* -------------------------------------------------------------- PointGrid
\* The grid maps a cell to the indices of the points in it; a point is found
\* by a scan of a cell range exactly when its own cell lies in the range.
pointCell(pts, cs, i) == << cellOf(pts[i][1], cs), cellOf(pts[i][2], cs) >>

inCellRange(cell, x0, x1, y0, y1) ==
    cell[1] >= x0 /\ cell[1] <= x1 /\ cell[2] >= y0 /\ cell[2] <= y1

\* Mutant: the scan visits only the cell of the rectangle's lower corner.
anyInside_lowCellOnly(pts, cs, r, ignoreIdx) ==
    LET x0 == cellOf(r.xmin, cs)
        y0 == cellOf(r.ymin, cs)
    IN  \E idx \in DOMAIN pts :
            /\ inCellRange(pointCell(pts, cs, idx), x0, x0, y0, y0)
            /\ idx # ignoreIdx
            /\ rectContainsPoint(r, pts[idx][1], pts[idx][2])

\* Mutant: the scan leaves out the last column and the last row of cells.
anyInside_beforeLastCell(pts, cs, r, ignoreIdx) ==
    LET x0 == cellOf(r.xmin, cs)
        x1 == cellOf(r.xmax, cs)
        y0 == cellOf(r.ymin, cs)
        y1 == cellOf(r.ymax, cs)
    IN  \E idx \in DOMAIN pts :
            /\ inCellRange(pointCell(pts, cs, idx), x0, x1 - 1, y0, y1 - 1)
            /\ idx # ignoreIdx
            /\ rectContainsPoint(r, pts[idx][1], pts[idx][2])

anyInside(pts, cs, r, ignoreIdx) ==
    LET x0 == cellOf(r.xmin, cs)
        x1 == cellOf(r.xmax, cs)
        y0 == cellOf(r.ymin, cs)
        y1 == cellOf(r.ymax, cs)
    IN  \E idx \in DOMAIN pts :
            /\ inCellRange(pointCell(pts, cs, idx), x0, x1, y0, y1)
            /\ idx # ignoreIdx
            /\ rectContainsPoint(r, pts[idx][1], pts[idx][2])

localCount(pts, cs, x, y) ==
    LET cx == cellOf(x, cs)
        cy == cellOf(y, cs)
    IN  Cardinality({ idx \in DOMAIN pts :
            inCellRange(pointCell(pts, cs, idx), cx - 1, cx + 1, cy - 1, cy + 1) })

\* --------------------------------------------------------------- RectGrid
\* rects is the vector of inserted rectangles; insert files a rectangle under
\* every cell of its extent, and a query scans the cells of its own extent.
rectCells(r, cs) ==
    [x0 |-> cellOf(r.xmin, cs), x1 |-> cellOf(r.xmax, cs),
     y0 |-> cellOf(r.ymin, cs), y1 |-> cellOf(r.ymax, cs)]

cellsMeet(a, b) ==
    a.x0 <= b.x1 /\ b.x0 <= a.x1 /\ a.y0 <= b.y1 /\ b.y0 <= a.y1

overlapsAny(rects, cs, r) ==
    \E id \in DOMAIN rects :
        /\ cellsMeet(rectCells(r, cs), rectCells(rects[id], cs))
        /\ overlapsStrict(r, rects[id])

\* ------------------------------------------------ corner clearance heuristic
\* Bounds of the occupied cells (PointGrid::minCx .. maxCy).
minCx(pts, cs) == CHOOSE c \in { pointCell(pts, cs, i)[1] : i \in DOMAIN pts } :
                      \A i \in DOMAIN pts : c <= pointCell(pts, cs, i)[1]
maxCx(pts, cs) == CHOOSE c \in { pointCell(pts, cs, i)[1] : i \in DOMAIN pts } :
                      \A i \in DOMAIN pts : c >= pointCell(pts, cs, i)[1]
minCy(pts, cs) == CHOOSE c \in { pointCell(pts, cs, i)[2] : i \in DOMAIN pts } :
                      \A i \in DOMAIN pts : c <= pointCell(pts, cs, i)[2]
maxCy(pts, cs) == CHOOSE c \in { pointCell(pts, cs, i)[2] : i \in DOMAIN pts } :
                      \A i \in DOMAIN pts : c >= pointCell(pts, cs, i)[2]

withinBounds(pts, cs, cell) ==
    inCellRange(cell, minCx(pts, cs), maxCx(pts, cs), minCy(pts, cs), maxCy(pts, cs))

\* The cells ring r visits in orthant (sx, sy) around cell (cx, cy): the edge
\* |a| = r (b from 1 to r) and the edge |b| = r (a from 1 to r).
ringCells(cx, cy, r, sx, sy) ==
    { << cx + sx * r, cy + sy * k >> : k \in 1 .. r } \cup
    { << cx + sx * k, cy + sy * r >> : k \in 1 .. r }

\* best after ring r: every point j # i of a visited cell that lies strictly in
\* the orthant offers min(|dx|, |dy|).
ringBest(pts, cs, i, xi, yi, sx, sy, r, best) ==
    LET cells == ringCells(cellOf(xi, cs), cellOf(yi, cs), r, sx, sy)
        offers == { Min2(Abs(pts[j][1] - xi), Abs(pts[j][2] - yi)) :
                      j \in { j \in DOMAIN pts :
                                /\ j # i
                                /\ pointCell(pts, cs, j) \in cells
                                /\ (pts[j][1] - xi) * sx > 0
                                /\ (pts[j][2] - yi) * sy > 0 } }
    IN  IF \E v \in offers : v < best
        THEN CHOOSE v \in offers : \A w \in offers : v <= w
        ELSE best

\* Lines 188-196 after ring r left best: touchedAny and the two tests that
\* end the loop (TRUE when the loop ends with best).
ringEnds(pts, cs, xi, yi, sx, sy, r, best) ==
    LET cx == cellOf(xi, cs)
        cy == cellOf(yi, cs)
        touched == \E cell \in ringCells(cx, cy, r, sx, sy) :
                       withinBounds(pts, cs, cell)
        pastX == IF sx > 0 THEN cx + r > maxCx(pts, cs)
                           ELSE cx - r < minCx(pts, cs)
        pastY == IF sy > 0 THEN cy + r > maxCy(pts, cs)
                           ELSE cy - r < minCy(pts, cs)
    IN  \/ best # INF /\ r * cs >= best
        \/ ~touched /\ pastX /\ pastY

RECURSIVE ringLoop(_, _, _, _, _, _, _, _, _, _)
\* The rest of ring r once its scan left best, and the rings after it.
ringNext(pts, cs, i, xi, yi, sx, sy, r, maxR, best) ==
    IF ringEnds(pts, cs, xi, yi, sx, sy, r, best) THEN best
    ELSE ringLoop(pts, cs, i, xi, yi, sx, sy, r + 1, maxR, best)

ringLoop(pts, cs, i, xi, yi, sx, sy, r, maxR, best) ==
    IF r > maxR THEN best
    ELSE ringNext(pts, cs, i, xi, yi, sx, sy, r, maxR,
                  ringBest(pts, cs, i, xi, yi, sx, sy, r, best))

orthantClearanceGrid(pts, cs, i, xi, yi, sx, sy) ==
    LET dX == maxCx(pts, cs) - minCx(pts, cs)
        dY == maxCy(pts, cs) - minCy(pts, cs)
        maxR == 2 + (IF dX > dY THEN dX ELSE dY)
    IN  ringLoop(pts, cs, i, xi, yi, sx, sy, 1, maxR, INF)

\* The sign pairs of the corners 0..3 (TL, TR, BR, BL) as line 220-223 passes
\* them to the clearance.
signX(c) == IF c = 1 \/ c = 2 THEN 1 ELSE -1
signY(c) == IF c >= 2 THEN 1 ELSE -1

\* Mutant: an equal clearance replaces the best so far.
RECURSIVE bestCornerLoop_lastOnTie(_, _, _, _)
bestCornerLoop_lastOnTie(clear, c, best, bestV) ==
    IF c > 3 THEN best
    ELSE IF clear[c] = INF THEN c
    ELSE IF clear[c] >= bestV THEN bestCornerLoop_lastOnTie(clear, c + 1, c, clear[c])
    ELSE bestCornerLoop_lastOnTie(clear, c + 1, best, bestV)

\* The loop of lines 225-230 over clear[0..3]: an infinite clearance wins at
\* once, else a strictly larger one replaces the best so far.
RECURSIVE bestCornerLoop(_, _, _, _)
bestCornerLoop(clear, c, best, bestV) ==
    IF c > 3 THEN best
    ELSE IF clear[c] = INF THEN c
    ELSE IF clear[c] > bestV THEN bestCornerLoop(clear, c + 1, c, clear[c])
    ELSE bestCornerLoop(clear, c + 1, best, bestV)

cornerOf(pts, i) ==
    bestCornerLoop([c \in 0 .. 3 |->
                       orthantClearanceGrid(pts, CornerCell, i, pts[i][1], pts[i][2],
                                            signX(c), signY(c))],
                   0, 0, -1)

chooseFixedCornersByConflicts(pts) ==
    [i \in DOMAIN pts |-> cornerOf(pts, i)]

\* --------------------------------------------------- greedyPlaceMonotone
DefaultState ==
    [lastBase |-> -1, active |-> << >>, fixedCorner |-> EmptyVec, usedOnce |-> EmptyVec]

\* Line 497 and step 2: every candidate gets the size, valid = false, and the
\* candidates of point pid < N get the corner fixedCorner[pid].
\* Mutant: the size is written to the candidate of the fixed corner only.
prepareCandidates_sizeOfFixedOnly(cands, N, baseSize, fc) ==
    [k \in DOMAIN cands |->
        [cands[k] EXCEPT !.size = IF k \div perPoint < N /\ k % perPoint = fc[k \div perPoint]
                                  THEN baseSize ELSE @,
                         !.valid = FALSE,
                         !.corner = IF k \div perPoint < N THEN fc[k \div perPoint] ELSE @]]

prepareCandidates(cands, N, baseSize, fc) ==
    [k \in DOMAIN cands |->
        [cands[k] EXCEPT !.size = baseSize,
                         !.valid = FALSE,
                         !.corner = IF k \div perPoint < N THEN fc[k \div perPoint] ELSE @]]

\* Mutant: the previous label of point 0 is not taken over.
keepOf_skipsPointZero(active, N, fc) ==
    SortedSeq({ ownerOf(idx, perPoint) * perPoint + fc[ownerOf(idx, perPoint)] :
                  idx \in { a \in Range(active) :
                              ownerOf(a, perPoint) > 0 /\ ownerOf(a, perPoint) < N } })

\* Mutant: a previous label is re-addressed to the first candidate of its point.
keepOf_firstCandidate(active, N, fc) ==
    SortedSeq({ ownerOf(idx, perPoint) * perPoint :
                  idx \in { a \in Range(active) :
                              ownerOf(a, perPoint) >= 0 /\ ownerOf(a, perPoint) < N } })

\* Step 4, first loop: the previous labels, re-addressed by the fixed corner,
\* sorted and without duplicates.
\* Mutant: the previous labels are revisited from the largest index down.
keepOf_descending(active, N, fc) ==
    LET s == SortedSeq({ ownerOf(idx, perPoint) * perPoint + fc[ownerOf(idx, perPoint)] :
                           idx \in { a \in Range(active) :
                                       ownerOf(a, perPoint) >= 0 /\ ownerOf(a, perPoint) < N } })
    IN  [i \in 1 .. Len(s) |-> s[Len(s) + 1 - i]]

keepOf(active, N, fc) ==
    SortedSeq({ ownerOf(idx, perPoint) * perPoint + fc[ownerOf(idx, perPoint)] :
                  idx \in { a \in Range(active) :
                              ownerOf(a, perPoint) >= 0 /\ ownerOf(a, perPoint) < N } })

\* Mutant: the test against the accepted rectangles is left out.
feasible_noOverlapTest(acc, pts, cs, idx, pid) ==
    LET r == getAABB(acc.cands[idx])
    IN  ~anyInside(pts, cs, r, pid)

feasible(acc, pts, cs, idx, pid) ==
    LET r == getAABB(acc.cands[idx])
    IN  ~(anyInside(pts, cs, r, pid) \/ overlapsAny(acc.rg, cs, r))

\* Mutant: valid is written to the whole group of the point, as the corner is.
acceptLabel_wholeGroup(acc, idx, pid) ==
    LET r == getAABB(acc.cands[idx])
    IN  [acc EXCEPT !.cands = [k \in DOMAIN @ |->
                                  IF k \div perPoint = pid THEN [@[k] EXCEPT !.valid = TRUE]
                                  ELSE @[k]],
                    !.rg = Append(@, r),
                    !.placed = Append(@, r),
                    !.next_active = Append(@, idx),
                    !.usedOnce[pid] = 1]

\* Mutant: the rectangle of an accepted label is put at the front of the
\* returned vector.
acceptLabel_placedAtFront(acc, idx, pid) ==
    LET r == getAABB(acc.cands[idx])
    IN  [acc EXCEPT !.cands[idx].valid = TRUE,
                    !.rg = Append(@, r),
                    !.placed = << r >> \o @,
                    !.next_active = Append(@, idx),
                    !.usedOnce[pid] = 1]

acceptLabel(acc, idx, pid) ==
    LET r == getAABB(acc.cands[idx])
    IN  [acc EXCEPT !.cands[idx].valid = TRUE,
                    !.rg = Append(@, r),
                    !.placed = Append(@, r),
                    !.next_active = Append(@, idx),
                    !.usedOnce[pid] = 1]

\* Step 4, second loop: keep the previous labels that are still feasible.
RECURSIVE keepLoop(_, _, _, _, _)
keepLoop(acc, pts, cs, keep, k) ==
    IF k > Len(keep) THEN acc
    ELSE LET idx == keep[k]
             pid == ownerOf(idx, perPoint)
         IN  IF feasible(acc, pts, cs, idx, pid)
             THEN keepLoop([acceptLabel(acc, idx, pid) EXCEPT !.isActiveNow[pid] = 1],
                           pts, cs, keep, k + 1)
             ELSE keepLoop(acc, pts, cs, keep, k + 1)

\* Mutant: the loop of step 5 ends with the first label it adds.
RECURSIVE growLoop_endsAfterFirst(_, _, _, _, _, _)
growLoop_endsAfterFirst(acc, pts, cs, fc, order, k) ==
    IF k > Len(order) THEN acc
    ELSE LET pid == order[k]
             idx == pid * perPoint + fc[pid]
         IN  IF feasible(acc, pts, cs, idx, pid)
             THEN acceptLabel(acc, idx, pid)
             ELSE growLoop_endsAfterFirst(acc, pts, cs, fc, order, k + 1)

\* Step 5, last loop: add the feasible labels of the points in order.
RECURSIVE growLoop(_, _, _, _, _, _)
growLoop(acc, pts, cs, fc, order, k) ==
    IF k > Len(order) THEN acc
    ELSE LET pid == order[k]
             idx == pid * perPoint + fc[pid]
         IN  IF feasible(acc, pts, cs, idx, pid)
             THEN growLoop(acceptLabel(acc, idx, pid), pts, cs, fc, order, k + 1)
             ELSE growLoop(acc, pts, cs, fc, order, k + 1)

\* The results std::sort may give for the points S under the comparison
\* dens[a] > dens[b]: every arrangement of S with dens not increasing (the
\* order of points of equal density is not determined by the comparison).
sortedOrders(S, dens) ==
    { o \in [1 .. Cardinality(S) -> S] :
        /\ \A a, b \in 1 .. Cardinality(S) : a # b => o[a] # o[b]
        /\ \A a \in 1 .. (Cardinality(S) - 1) : dens[o[a]] >= dens[o[a + 1]] }

\* The point sequences the model passes to the program.
Coords == { CornerCell * c : c \in 0 .. MaxCoord }
Positions == Coords \X Coords
PointSeqs == UNION { [0 .. (n - 1) -> Positions] : n \in 0 .. MaxN }

\* The point sequences to which the model applies the functions one by one:
\* up to MaxN points at whole and half cells, the star of a centre with one
\* point on the diagonal of each quadrant, one or two cells away, and the four
\* points of the corners of a square in every order (with repetitions).
FnCoords == {0, 10, 20, 40}
FnPairs == UNION { [0 .. (n - 1) -> FnCoords \X FnCoords] : n \in 0 .. MaxN }
star(d) ==
    [i \in 0 .. 4 |->
        IF i = 0 THEN << 40, 40 >>
        ELSE << 40 + signX(i - 1) * d[i - 1], 40 + signY(i - 1) * d[i - 1] >>]
FnStars == { star(d) : d \in [0 .. 3 -> {20, 40}] }
FnSquares == [0 .. 3 -> {0, 40} \X {0, 40}]
FnPointSeqs == FnPairs \cup FnStars \cup FnSquares
FnSizes == {10, 16, 20}

\* chooseFixedCornersByConflicts, tabulated once over the point sequences of
\* the model (the comparison makes TLC hold the table as an explicit function).
explicit(f) == IF f = EmptyVec THEN EmptyVec ELSE f
fixedCornerTable ==
    explicit([pts \in PointSeqs \cup FnPointSeqs |-> chooseFixedCornersByConflicts(pts)])

\* Step 1: the fixed corners are chosen anew only when their number differs
\* from the number of points.
fixedCornerFor(st, pts) ==
    IF Size(st.fixedCorner) # Size(pts)
    THEN fixedCornerTable[pts]
    ELSE st.fixedCorner

usedOnceFor(st, pts) ==
    IF Size(st.usedOnce) # Size(pts) THEN [i \in DOMAIN pts |-> 0] ELSE st.usedOnce

\* Mutant: no zooming out without a previous size.
zoomingOutFor_needsPrev(st, baseSize) ==
    LET havePrev == st.lastBase >= 0
    IN  havePrev /\ baseSize < st.lastBase

\* Mutant: the comparison of the sizes is turned round.
zoomingOutFor_largerSize(st, baseSize) ==
    LET havePrev == st.lastBase >= 0
    IN  ~havePrev \/ baseSize > st.lastBase

\* Mutant: a repeated size counts as zooming out.
zoomingOutFor_repeatedSize(st, baseSize) ==
    LET havePrev == st.lastBase >= 0
    IN  ~havePrev \/ baseSize <= st.lastBase

zoomingOutFor(st, baseSize) ==
    LET havePrev == st.lastBase >= 0
    IN  ~havePrev \/ baseSize < st.lastBase

\* The state after the retention pass (steps 2 to 4) under the corners fc.
retainedWith(cands, pts, baseSize, st, fc) ==
    keepLoop([cands |-> prepareCandidates(cands, Size(pts), baseSize, fc),
              rg |-> << >>, placed |-> << >>, next_active |-> << >>,
              isActiveNow |-> [i \in DOMAIN pts |-> 0],
              usedOnce |-> usedOnceFor(st, pts)],
             pts, baseSize, keepOf(st.active, Size(pts), fc), 1)

\* The state after the retention pass (steps 1 to 4).
retained(cands, pts, baseSize, st) ==
    retainedWith(cands, pts, baseSize, st, fixedCornerFor(st, pts))

\* Step 5, the sort: the orders in which the growth pass may visit the points
\* that acc has left without label.
ordersAfter(acc, pts, baseSize) ==
    sortedOrders({ pid \in DOMAIN pts : acc.isActiveNow[pid] = 0 },
                 [pid \in DOMAIN pts |->
                     localCount(pts, baseSize, pts[pid][1], pts[pid][2])])

\* The orders the growth pass may visit the points in (one empty order when it
\* does not run).
growthOrders(cands, pts, baseSize, st) ==
    IF Size(pts) = 0 \/ Size(cands) = 0 \/ ~zoomingOutFor(st, baseSize) THEN { << >> }
    ELSE ordersAfter(retained(cands, pts, baseSize, st), pts, baseSize)

\* Step 5: the growth pass runs only when zooming out.
growthPass(kept, pts, baseSize, fc, order, zoomingOut) ==
    IF zoomingOut THEN growLoop(kept, pts, baseSize, fc, order, 1) ELSE kept

\* Lines 594-596: the state is updated and the accepted rectangles returned.
monotoneResult(acc, baseSize, fc) ==
    [candidates |-> acc.cands,
     state |-> [lastBase |-> baseSize, active |-> acc.next_active,
                fixedCorner |-> fc, usedOnce |-> acc.usedOnce],
     placed |-> acc.placed]

\* Steps 2 to 5 under the corners fc of step 1.
placeWith(cands, pts, baseSize, st, order, fc) ==
    monotoneResult(growthPass(retainedWith(cands, pts, baseSize, st, fc),
                              pts, baseSize, fc, order, zoomingOutFor(st, baseSize)),
                   baseSize, fc)

\* greedyPlaceMonotone(candidates, points, baseSize, state), order being the
\* result of the std::sort of step 5: the candidates and the state it leaves
\* and the vector it returns.
greedyPlaceMonotone(cands, pts, baseSize, st, order) ==
    IF Size(pts) = 0 \/ Size(cands) = 0
    THEN [candidates |-> [k \in DOMAIN cands |->
                             [cands[k] EXCEPT !.size = baseSize, !.valid = FALSE]],
          state |-> [DefaultState EXCEPT !.lastBase = baseSize],
          placed |-> << >>]
    ELSE placeWith(cands, pts, baseSize, st, order, fixedCornerFor(st, pts))

\* ----------------------------------------------------- greedyPlaceInternal
\* rectGap, held as the square of the distance: std::sqrt is increasing, so
\* two gaps compare as their squares do and a gap is 0 exactly when its
\* square is.
rectGap(a, b) ==
    LET dx == IF a.xmax < b.xmin THEN b.xmin - a.xmax
              ELSE IF b.xmax < a.xmin THEN a.xmin - b.xmax ELSE 0
        dy == IF a.ymax < b.ymin THEN b.ymin - a.ymax
              ELSE IF b.ymax < a.ymin THEN a.ymin - b.ymax ELSE 0
    IN  dx * dx + dy * dy

\* RectGrid::minGapToAny: the least gap to the rectangles filed under a cell
\* of the extent of r, infinity (INF) when there is none.
minGapToAny(rects, cs, r) ==
    LET gaps == { rectGap(r, rects[id]) :
                    id \in { i \in DOMAIN rects :
                               cellsMeet(rectCells(r, cs), rectCells(rects[i], cs)) } }
    IN  IF gaps = {} THEN INF ELSE CHOOSE g \in gaps : \A h \in gaps : g <= h

\* The candidates one point has in the list.
internalPerPoint(cands, pts) ==
    IF Size(cands) \div Size(pts) > 1 THEN Size(cands) \div Size(pts) ELSE 1

\* The order of the points: densest first, then by index (the comparison is
\* a total order, so std::sort has one result).
internalOrder(pts, cs) ==
    LET N == Size(pts)
        keys == SortedSeq({ p - N * localCount(pts, cs, pts[p][1], pts[p][2]) :
                              p \in DOMAIN pts })
    IN  [n \in 1 .. N |-> keys[n] % N]

\* The loop over the candidates of point pid from the j-th on; best holds
\* bestScore and bestIdx.
RECURSIVE candidateLoop(_, _, _, _, _, _, _, _)
candidateLoop(cands, pts, cs, rg, pid, pp, j, best) ==
    IF j >= pp \/ pid * pp + j >= Size(cands) THEN best
    ELSE LET k == pid * pp + j
             r == getAABB(cands[k])
         IN  IF anyInside(pts, cs, r, pid) \/ overlapsAny(rg, cs, r)
             THEN candidateLoop(cands, pts, cs, rg, pid, pp, j + 1, best)
             ELSE LET gap == minGapToAny(rg, cs, r)
                      score == IF gap = INF THEN 0 ELSE gap
                      next == IF score < best.score
                              THEN [score |-> score, idx |-> k] ELSE best
                  IN  IF next.score = 0 THEN next
                      ELSE candidateLoop(cands, pts, cs, rg, pid, pp, j + 1, next)

\* The loop over the points in order; steps records, for every point
\* visited, the rectangles accepted before it and the index accepted for it
\* (-1 for none).
RECURSIVE pointLoop(_, _, _, _, _, _)
pointLoop(acc, pts, cs, pp, order, n) ==
    IF n > Len(order) THEN acc
    ELSE LET pid == order[n]
             best == candidateLoop(acc.candidates, pts, cs, acc.placed, pid, pp, 0,
                                   [score |-> INF, idx |-> -1])
             step == [pid |-> pid, rg |-> acc.placed, idx |-> best.idx]
         IN  IF best.idx >= 0
             THEN pointLoop([candidates |-> [acc.candidates EXCEPT ![best.idx].valid = TRUE],
                             placed |-> Append(acc.placed, getAABB(acc.candidates[best.idx])),
                             steps |-> Append(acc.steps, step)],
                            pts, cs, pp, order, n + 1)
             ELSE pointLoop([acc EXCEPT !.steps = Append(@, step)],
                            pts, cs, pp, order, n + 1)

\* greedyPlaceInternal(candidates, points): the candidates it leaves, the
\* vector it returns and the record of its steps.
greedyPlaceInternal(cands, pts) ==
    LET cleared == [k \in DOMAIN cands |-> [cands[k] EXCEPT !.valid = FALSE]]
        start == [candidates |-> cleared, placed |-> << >>, steps |-> << >>]
    IN  IF Size(pts) = 0 \/ Size(cands) = 0 THEN start
        ELSE pointLoop(start, pts, cands[0].size, internalPerPoint(cands, pts),
                       internalOrder(pts, cands[0].size), 1)

\* ---------------------------------------------------------- QuadRectIndex
\* A node is named by its path from the root, the sequence of the child
\* numbers taken; the tree maps the path of every node there is to the items
\* of the node and to whether it has children.  The bounds are whole numbers
\* whose midpoints 0.5f*(min + max) are whole down to the depth of the model.
childBounds(b, q) ==
    LET mx == (b.xmin + b.xmax) \div 2
        my == (b.ymin + b.ymax) \div 2
    IN  CASE q = 0 -> [xmin |-> b.xmin, ymin |-> my, xmax |-> mx, ymax |-> b.ymax]
          [] q = 1 -> [xmin |-> mx, ymin |-> my, xmax |-> b.xmax, ymax |-> b.ymax]
          [] q = 2 -> [xmin |-> mx, ymin |-> b.ymin, xmax |-> b.xmax, ymax |-> my]
          [] OTHER -> [xmin |-> b.xmin, ymin |-> b.ymin, xmax |-> mx, ymax |-> my]

whichChild(b, r) ==
    LET mx == (b.xmin + b.xmax) \div 2
        my == (b.ymin + b.ymax) \div 2
        left == r.xmax <= mx
        right == r.xmin >= mx
        bot == r.ymax <= my
        top == r.ymin >= my
    IN  IF left /\ top THEN 0
        ELSE IF right /\ top THEN 1
        ELSE IF right /\ bot THEN 2
        ELSE IF left /\ bot THEN 3
        ELSE -1

\* QuadNode::bounds of the node at path under the root bounds world.
RECURSIVE nodeBounds(_, _)
nodeBounds(world, path) ==
    IF path = << >> THEN world
    ELSE nodeBounds(childBounds(world, Head(path)), Tail(path))

\* A node without children that holds items.
quadNode(items) == [items |-> items, split |-> FALSE]

\* The tree of a new index: the root alone.
newQuadTree == (<< >> :> quadNode(<< >>))

\* The items that whichChild sends to child q of the node of bounds b (those
\* that stay in the node for q = -1), in their order.
itemsFor(items, b, q) == SelectSeq(items, LAMBDA x : whichChild(b, x) = q)

split(tree, world, path) ==
    IF tree[path].split THEN tree
    ELSE LET b == nodeBounds(world, path)
             items == tree[path].items
         IN  (Append(path, 0) :> quadNode(itemsFor(items, b, 0)))
             @@ (Append(path, 1) :> quadNode(itemsFor(items, b, 1)))
             @@ (Append(path, 2) :> quadNode(itemsFor(items, b, 2)))
             @@ (Append(path, 3) :> quadNode(itemsFor(items, b, 3)))
             @@ [tree EXCEPT ![path] = [items |-> itemsFor(items, b, -1), split |-> TRUE]]

\* insertRec(n, r) for the node n at path.
RECURSIVE insertRec(_, _, _, _)
insertRec(tree, world, path, r) ==
    LET c == whichChild(nodeBounds(world, path), r)
    IN  IF Len(path) < QMaxDepth /\ c >= 0
        THEN insertRec(split(tree, world, path), world, Append(path, c), r)
        ELSE LET pushed == [tree EXCEPT ![path].items = Append(@, r)]
             IN  IF Len(pushed[path].items) > QCap /\ Len(path) < QMaxDepth
                 THEN split(pushed, world, path)
                 ELSE pushed

\* overlapsAnyRec(n, r) for the node n at path.
RECURSIVE overlapsAnyRec(_, _, _, _)
overlapsAnyRec(tree, world, path, r) ==
    LET b == nodeBounds(world, path)
    IN  IF ~overlapsStrict(b, r) /\ rectGap(b, r) > 0 THEN FALSE
        ELSE \/ \E k \in DOMAIN tree[path].items : overlapsStrict(tree[path].items[k], r)
             \/ /\ tree[path].split
                /\ \E q \in 0 .. 3 : overlapsAnyRec(tree, world, Append(path, q), r)

\* ------------------------------------------------------------ the machine
VARIABLES
    points,      \* the caller's point sequence, as passed to the last call
    candidates,  \* the caller's candidate list, as left by the last call
    state,       \* the MonotoneState the calls share
    placed,      \* the vector the last call returned
    thr,         \* computeZoomThresholds: its arguments, its locals and where it
                 \* stands (pc); [pc |-> "idle"] when no search is running
    probes,      \* the oracle runs of the search so far: the size probed, the
                 \* phase and the alive mask answered
    rows,        \* the rows the batch tool has written (x, y, side, size, corner)
    fn,          \* the last application of a function to the points: which one,
                 \* its other arguments and its result; [op |-> "none"] before
    pre          \* what the last call found: how many calls came before it (0, 1,
                 \* 2 for more), the number of points of the call before it,
                 \* whether its points are those of that call, lastBase and the
                 \* set of active indices of the state, and the indices of the
                 \* candidates the call before it left valid

vars == << points, candidates, state, placed, thr, probes, rows, fn, pre >>

Sizes == { CornerCell * k : k \in 1 .. MaxSize }

NoCall == [calls |-> 0, n |-> 0, same |-> FALSE, lastBase |-> -1,
           active |-> {}, valid |-> {}, fixedCorner |-> EmptyVec, usedOnce |-> EmptyVec]
NoSearch == [pc |-> "idle"]
NoFn == [op |-> "none"]

Init ==
    /\ points = EmptyVec
    /\ candidates = EmptyVec
    /\ state = DefaultState
    /\ placed = << >>
    /\ thr = NoSearch
    /\ probes = {}
    /\ rows = EmptyVec
    /\ fn = NoFn
    /\ pre = NoCall

\* One call greedyPlaceMonotone(candidates, pts, baseSize, &state) on the
\* candidates generateLabelCandidates(pts, baseSize) (example/main.cpp 132-134).
Returns(pts, res) ==
    /\ points' = pts
    /\ candidates' = res.candidates
    /\ state' = res.state
    /\ placed' = res.placed
    /\ pre' = [calls |-> IF pre.calls = 0 THEN 1 ELSE 2,
               n |-> Size(points),
               same |-> pre.calls > 0 /\ pts = points,
               lastBase |-> state.lastBase,
               active |-> Range(state.active),
               valid |-> { k \in DOMAIN candidates : candidates[k].valid },
               fixedCorner |-> state.fixedCorner,
               usedOnce |-> state.usedOnce]

PlaceOn(cands, pts, baseSize) ==
    /\ \E order \in growthOrders(cands, pts, baseSize, state) :
           Returns(pts, greedyPlaceMonotone(cands, pts, baseSize, state, order))
    /\ UNCHANGED << thr, probes, rows, fn >>

Place(pts, baseSize) ==
    PlaceOn(generateLabelCandidates(pts, baseSize), pts, baseSize)

Next == \E pts \in PointSeqs, baseSize \in Sizes : Place(pts, baseSize)

Spec == Init /\ [][Next]_vars

\* ------------------------------------------- greedyPlaceOneLabelPerPoint
\* The shim works on one static MonotoneState s, here the variable state.
shimBaseSize(cands) == IF Size(cands) = 0 THEN ShimBase ELSE cands[0].size

greedyPlaceOneLabelPerPoint(cands, pts, s, order) ==
    greedyPlaceMonotone(cands, pts, shimBaseSize(cands), s, order)

shimOrders(cands, pts, s) == growthOrders(cands, pts, shimBaseSize(cands), s)

\* ------------------------------------------------------------ runAtScale
hasValid(cand, i) == \E c \in 0 .. 3 : cand[i * perPoint + c].valid

firstValid(cand, i) ==
    CHOOSE c \in 0 .. 3 : /\ cand[i * perPoint + c].valid
                          /\ \A d \in 0 .. (c - 1) : ~cand[i * perPoint + d].valid

\* What the call leaves (res) with the vectors aliveOut and chosenCorner.
oracleResult(res, N) ==
    [candidates |-> res.candidates, state |-> res.state, placed |-> res.placed,
     aliveOut |-> [i \in 0 .. (N - 1) |->
                      IF hasValid(res.candidates, i) THEN 1 ELSE 0],
     chosenCorner |-> [i \in 0 .. (N - 1) |->
                      IF hasValid(res.candidates, i)
                      THEN res.candidates[i * perPoint + firstValid(res.candidates, i)].corner
                      ELSE -1]]

runOn(cand, pts, s) ==
    { oracleResult(greedyPlaceOneLabelPerPoint(cand, pts, s, order), Size(pts)) :
        order \in shimOrders(cand, pts, s) }

\* The results runAtScale(pts, S, aliveOut, chosenCorner) may give when the
\* static state of the shim is s (one for every order of the std::sort).
runAtScale(pts, S, s) == runOn(generateLabelCandidates(pts, S), pts, s)

\* One call runAtScale(pts, S) in a process.
RunAtScale(pts, S) ==
    /\ \E out \in runAtScale(pts, S, state) : Returns(pts, out)
    /\ UNCHANGED << thr, probes, rows, fn >>

OracleNext == \E pts \in PointSeqs, S \in Sizes : RunAtScale(pts, S)

\* A process that probes point sets and sizes with runAtScale.
SpecOracle == Init /\ [][OracleNext]_vars

\* ------------------------------------------------- computeZoomThresholds
\* The arguments the model passes.  The sizes are multiples of 8 and growth
\* is whole, so that every probed size and every midpoint 0.5f*(lo+hi) of up
\* to three rounds of refinement is a whole number of units.
EpsChoices == {1, 4}
GrowthChoices == {2}

\* The ranges [Smin, Smax] the model passes, with the sweep settings passed with
\* each: a sweep of 1 or 2 samples or none over [8, 32], and the sweep with
\* the automatic count (multiSamples = 0, the tool's default) over [8, 1024],
\* whose 8 log-spaced samples are 8, 16, ..., 1024.
SearchRanges ==
    { [Smin |-> 8, Smax |-> 32, multiSample |-> BOOLEAN, multiSamples |-> {1, 2}],
      [Smin |-> 8, Smax |-> 1024, multiSample |-> {TRUE}, multiSamples |-> {0}] }

mid(lo, hi) == (lo + hi) \div 2

RECURSIVE Pow(_, _)
Pow(b, e) == IF e = 0 THEN 1 ELSE b * Pow(b, e - 1)

\* ceil(log(Smax/S)/log(growth)): the least k with S * growth^k >= Smax.
RECURSIVE ceilLogRatio(_, _, _)
ceilLogRatio(S, Smax, growth) ==
    IF S >= Smax THEN 0 ELSE 1 + ceilLogRatio(S * growth, Smax, growth)

\* Lines 88-91: a count multiSamples <= 0 is replaced by the automatic one, at
\* least MinAutoSamples.
sweepCount(Smin, Smax, growth, multiSample, multiSamples) ==
    IF multiSample /\ multiSamples <= 0
    THEN IF ceilLogRatio(Smin, Smax, growth) > MinAutoSamples
         THEN ceilLogRatio(Smin, Smax, growth) ELSE MinAutoSamples
    ELSE multiSamples

\* Lines 95-96: exp(logMin + t*(logMax - logMin)) for t = i/(multiSamples-1), and
\* t = 0 when multiSamples = 1: sample i is Smin * q^i for the ratio q with
\* Smin * q^(multiSamples-1) = Smax (whole for the ranges the model passes).
sweepSize(Smin, Smax, multiSamples, i) ==
    IF multiSamples = 1 THEN Smin
    ELSE Smin * Pow(CHOOSE q \in 1 .. Smax : Smin * Pow(q, multiSamples - 1) = Smax, i)

\* Lines 78-84 and 116: the locals before the first phase (the growth phase
\* starts at Smin, which main passes as at least 1e-6f, so Smin > 0).
startSearch(N, Smin, Smax, eps, growth, maxGrowth, maxRefine, multiSample, multiSamples) ==
    [pc |-> "start",
     Smin |-> Smin, Smax |-> Smax, eps |-> eps, growth |-> growth,
     maxGrowth |-> maxGrowth, maxRefine |-> maxRefine,
     multiSample |-> multiSample,
     multiSamples |-> sweepCount(Smin, Smax, growth, multiSample, multiSamples),
     samplesPassed |-> multiSamples,
     r |-> [size |-> [i \in 0 .. (N - 1) |-> Smin],
            corner |-> [i \in 0 .. (N - 1) |-> 0],
            growthRuns |-> 0, refineRuns |-> 0, sweepRuns |-> 0],
     iv |-> [i \in 0 .. (N - 1) |-> [lo |-> Smin, hi |-> Smax, resolved |-> FALSE]],
     alive |-> [i \in 0 .. (N - 1) |-> 1],
     i |-> 0, S |-> Smin, g |-> 0, iter |-> 0]

\* Lines 134-135: the midpoints of the brackets that are still open.
midsOf(t) ==
    LET open == SortedSeq({ i \in DOMAIN t.iv :
                   ~t.iv[i].resolved /\ t.iv[i].hi - t.iv[i].lo > t.eps })
    IN  [k \in 1 .. Len(open) |-> mid(t.iv[open[k]].lo, t.iv[open[k]].hi)]

\* std::nth_element at position k (from 0): the value of rank k.
nthElement(m, k) ==
    CHOOSE v \in Range(m) :
        /\ Cardinality({ j \in DOMAIN m : m[j] < v }) <= k
        /\ Cardinality({ j \in DOMAIN m : m[j] <= v }) > k

\* The head of the refinement loop (lines 133-136).
enterRefine(t) ==
    IF t.iter < t.maxRefine /\ Len(midsOf(t)) > 0
    THEN [t EXCEPT !.pc = "refine"]
    ELSE [t EXCEPT !.pc = "done"]

\* Line 130: the points still alive get hi = min(hi, Smax).
closeGrowth(t) ==
    [t EXCEPT !.iv = [i \in DOMAIN @ |->
                         IF t.alive[i] = 1
                         THEN [@[i] EXCEPT !.hi = Min2(@, t.Smax)]
                         ELSE @[i]]]

\* The head of the growth loop (line 117).
enterGrowth(t) ==
    IF t.g < t.maxGrowth /\ t.S < t.Smax
    THEN [t EXCEPT !.pc = "growth"]
    ELSE enterRefine(closeGrowth(t))

\* Lines 87 and 94: the sweep runs when multiSample is set.
enterSweep(t) ==
    IF t.multiSample /\ t.i < t.multiSamples
    THEN [t EXCEPT !.pc = "sweep"]
    ELSE enterGrowth(t)

computeZoomThresholds(N, Smin, Smax, eps, growth, maxGrowth, maxRefine, multiSample, multiSamples) ==
    enterSweep(startSearch(N, Smin, Smax, eps, growth, maxGrowth, maxRefine,
                           multiSample, multiSamples))

\* Lines 98-109: one sweep run at size S gave out.
sweepUpdate(t, S, out) ==
    [t EXCEPT
       !.r.sweepRuns = @ + 1,
       !.r.size = [p \in DOMAIN @ |->
                     IF out.aliveOut[p] = 1 /\ S > t.iv[p].lo THEN S ELSE @[p]],
       !.r.corner = [p \in DOMAIN @ |->
                       IF out.aliveOut[p] = 1 /\ S > t.iv[p].lo /\ out.chosenCorner[p] >= 0
                       THEN out.chosenCorner[p] ELSE @[p]],
       !.iv = [p \in DOMAIN @ |->
                 IF out.aliveOut[p] = 1
                 THEN IF S > @[p].lo THEN [@[p] EXCEPT !.lo = S] ELSE @[p]
                 ELSE IF S < @[p].hi THEN [@[p] EXCEPT !.hi = S] ELSE @[p]],
       !.i = @ + 1]

\* Line 112: after the sweep a bracket no wider than eps is resolved.
sweepEnd(t) ==
    [t EXCEPT !.iv = [i \in DOMAIN @ |->
                         IF @[i].hi - @[i].lo <= t.eps
                         THEN [@[i] EXCEPT !.resolved = TRUE]
                         ELSE @[i]]]

afterSweepRun(t) ==
    IF t.i < t.multiSamples THEN t ELSE enterGrowth(sweepEnd(t))

\* Lines 119-125: one growth run at size S gave out.
growthUpdate(t, S, out) ==
    [t EXCEPT
       !.r.growthRuns = @ + 1,
       !.r.size = [i \in DOMAIN @ |->
                     IF out.aliveOut[i] = 1 /\ S > t.iv[i].lo THEN S ELSE @[i]],
       !.r.corner = [i \in DOMAIN @ |->
                       IF out.aliveOut[i] = 1 /\ S > t.iv[i].lo /\ out.chosenCorner[i] >= 0
                       THEN out.chosenCorner[i] ELSE @[i]],
       !.iv = [i \in DOMAIN @ |->
                 IF out.aliveOut[i] = 1
                 THEN IF S > @[i].lo THEN [@[i] EXCEPT !.lo = S] ELSE @[i]
                 ELSE IF t.alive[i] = 1 THEN [@[i] EXCEPT !.hi = S] ELSE @[i]],
       !.alive = [i \in DOMAIN @ |->
                    IF out.aliveOut[i] = 0 /\ @[i] = 1 THEN 0 ELSE @[i]]]

\* Mutant: the growth loop does not count its rounds.
afterGrowthRun_noCount(t) ==
    IF \A i \in DOMAIN t.alive : t.alive[i] = 0
    THEN enterRefine(closeGrowth(t))
    ELSE enterGrowth([t EXCEPT !.S = Min2(@ * t.growth, t.Smax)])

\* Lines 126-128: stop when no point is alive, else the next size.
afterGrowthRun(t) ==
    IF \A i \in DOMAIN t.alive : t.alive[i] = 0
    THEN enterRefine(closeGrowth(t))
    ELSE enterGrowth([t EXCEPT !.S = Min2(@ * t.growth, t.Smax), !.g = @ + 1])

\* Lines 140-148: one refinement run at size testS gave out.
refineUpdate(t, testS, out) ==
    [t EXCEPT
       !.r.refineRuns = @ + 1,
       !.r.size = [i \in DOMAIN @ |->
                     IF ~t.iv[i].resolved /\ out.aliveOut[i] = 1 THEN testS ELSE @[i]],
       !.r.corner = [i \in DOMAIN @ |->
                       IF ~t.iv[i].resolved /\ out.aliveOut[i] = 1 /\ out.chosenCorner[i] >= 0
                       THEN out.chosenCorner[i] ELSE @[i]],
       !.iv = [i \in DOMAIN @ |->
                 IF @[i].resolved THEN @[i]
                 ELSE IF out.aliveOut[i] = 1
                      THEN [lo |-> testS, hi |-> @[i].hi,
                            resolved |-> @[i].hi - testS <= t.eps]
                      ELSE [lo |-> @[i].lo, hi |-> testS,
                            resolved |-> testS - @[i].lo <= t.eps]]]

\* Line 149 and the loop head: stop when every bracket is resolved.
afterRefineRun(t) ==
    IF \A i \in DOMAIN t.iv : t.iv[i].resolved
    THEN [t EXCEPT !.pc = "done"]
    ELSE enterRefine([t EXCEPT !.iter = @ + 1])

\* The tool starts the search on the points it has read; the static state of
\* the shim is as the process start left it.
ThrInit ==
    /\ points \in PointSeqs \ {EmptyVec}
    /\ candidates = EmptyVec
    /\ state = DefaultState
    /\ placed = << >>
    /\ probes = {}
    /\ rows = EmptyVec
    /\ fn = NoFn
    /\ pre = NoCall
    /\ \E rng \in SearchRanges, eps \in EpsChoices,
          growth \in GrowthChoices, maxGrowth \in 1 .. MaxGrowth,
          maxRefine \in 0 .. MaxRefine :
          \E multiSample \in rng.multiSample, multiSamples \in rng.multiSamples :
              thr = computeZoomThresholds(Size(points), rng.Smin, rng.Smax, eps, growth,
                                          maxGrowth, maxRefine, multiSample, multiSamples)

\* The run at size S in the given phase answered out.
Probed(phase, S, out) ==
    /\ probes' = probes \cup {[S |-> S, phase |-> phase, aliveOut |-> out.aliveOut]}
    /\ UNCHANGED << rows, fn >>

SweepAt(S) ==
    \E out \in runAtScale(points, S, state) :
        /\ Returns(points, out)
        /\ Probed("sweep", S, out)
        /\ thr' = afterSweepRun(sweepUpdate(thr, S, out))

SweepStep ==
    /\ thr.pc = "sweep"
    /\ SweepAt(sweepSize(thr.Smin, thr.Smax, thr.multiSamples, thr.i))

GrowthStep ==
    /\ thr.pc = "growth"
    /\ \E out \in runAtScale(points, thr.S, state) :
           /\ Returns(points, out)
           /\ Probed("growth", thr.S, out)
           /\ thr' = afterGrowthRun(growthUpdate(thr, thr.S, out))

RefineAt(testS) ==
    \E out \in runAtScale(points, testS, state) :
        /\ Returns(points, out)
        /\ Probed("refine", testS, out)
        /\ thr' = afterRefineRun(refineUpdate(thr, testS, out))

RefineWith(mids) == RefineAt(nthElement(mids, Len(mids) \div 2))

RefineStep ==
    /\ thr.pc = "refine"
    /\ RefineWith(midsOf(thr))

\* main, lines 243-252: the candidates for the output, the one of the
\* reported corner valid and with the reported size.
outputCandidates(pts, r) ==
    [k \in 0 .. (perPoint * Size(pts) - 1) |->
        [anchor |-> pts[k \div perPoint],
         size |-> IF k % perPoint = r.corner[k \div perPoint]
                  THEN r.size[k \div perPoint] ELSE 0,
         corner |-> k % perPoint, weight |-> 1,
         valid |-> k % perPoint = r.corner[k \div perPoint]]]

\* write_results_csv, lines 180-187: the row of point i (side INF when no
\* candidate of the point is valid).
resultRow(pts, cands, i) ==
    IF hasValid(cands, i)
    THEN [x |-> pts[i][1], y |-> pts[i][2],
          side |-> cands[i * perPoint + firstValid(cands, i)].size,
          size |-> cands[i * perPoint + firstValid(cands, i)].size,
          corner |-> cands[i * perPoint + firstValid(cands, i)].corner]
    ELSE [x |-> pts[i][1], y |-> pts[i][2], side |-> INF, size |-> 0, corner |-> 0]

write_results_csv(pts, cands) == [i \in DOMAIN pts |-> resultRow(pts, cands, i)]

\* The search has returned: main builds the output and writes it.
WritesOut(cands) ==
    /\ candidates' = cands
    /\ rows' = write_results_csv(points, cands)

WriteResults ==
    /\ thr.pc = "done"
    /\ thr' = [thr EXCEPT !.pc = "written"]
    /\ WritesOut(outputCandidates(points, thr.r))
    /\ UNCHANGED << points, state, placed, probes, fn, pre >>

ThrNext == SweepStep \/ GrowthStep \/ RefineStep \/ WriteResults

SpecThr == ThrInit /\ [][ThrNext]_vars

\* The tool is a sequential program and every oracle run returns (the loops of
\* the placement are bounded by the sizes of their vectors), so it always takes
\* its next step: weak fairness of ThrNext.  A step of the search is enabled
\* exactly while pc is one of its three phases, and the condition on the
\* search is written with that predicate for ENABLED <<ThrNext>>_vars.
SearchRunning == thr.pc \in {"sweep", "growth", "refine"}

SpecThrFair ==
    /\ SpecThr
    /\ <>[] SearchRunning => []<> <<ThrNext>>_vars
    /\ WF_vars(WriteResults)

\* ------------------------------------------------- the functions one by one
\* A process that applies one function of the library to its points: the
\* clearance of a point in an orthant, the choice of the corners, the rectangle
\* of a candidate, or a first placement on a default state.
FnInit ==
    /\ points \in FnPointSeqs
    /\ candidates = EmptyVec
    /\ state = DefaultState
    /\ placed = << >>
    /\ thr = NoSearch
    /\ probes = {}
    /\ rows = EmptyVec
    /\ fn = NoFn
    /\ pre = NoCall

Applied(f) ==
    /\ fn.op = "none"
    /\ fn' = f
    /\ UNCHANGED << points, candidates, state, placed, thr, probes, rows, pre >>

\* orthantClearanceGrid(pg, i, points[i][0], points[i][1], sx, sy, eps) on the
\* grid of cell size 0.05f.
Clearance(i, sx, sy) ==
    Applied([op |-> "clearance", i |-> i, sx |-> sx, sy |-> sy,
             res |-> orthantClearanceGrid(points, CornerCell, i,
                                          points[i][1], points[i][2], sx, sy)])

Corners ==
    Applied([op |-> "corners", res |-> chooseFixedCornersByConflicts(points)])

AABBOf(c) == Applied([op |-> "getAABB", c |-> c, res |-> getAABB(c)])

\* greedyPlaceMonotone(candidates, points, size, &state) on new candidates and a
\* default state.
FirstPlaceOn(cands, size) ==
    /\ fn.op = "none"
    /\ fn' = [op |-> "place", size |-> size, given |-> cands]
    /\ \E order \in growthOrders(cands, points, size, state) :
           Returns(points, greedyPlaceMonotone(cands, points, size, state, order))
    /\ UNCHANGED << thr, probes, rows >>

FirstPlace(size) == FirstPlaceOn(generateLabelCandidates(points, size), size)

\* A candidate list as a caller may pass it: the candidates of the points at
\* the size csize (main.cpp builds them from per-point sizes, the call then
\* imposes its own size), with `extra` further candidates at its end, so that
\* the list does not hold four candidates per point when extra > 0.
givenCandidates(pts, csize, extra) ==
    LET gen == generateLabelCandidates(pts, csize)
    IN  [k \in 0 .. (Size(gen) + extra - 1) |->
            IF k < Size(gen) THEN gen[k]
            ELSE [anchor |-> << 0, 0 >>, size |-> csize, corner |-> 0,
                  weight |-> 1, valid |-> TRUE]]

\* The sizes the given candidates were made for (0.03, none of FnSizes).
GivenSizes == {12}

\* greedyPlaceMonotone(candidates, points, size, &state) on a default state and
\* on candidates that were made for another size or are one too many.
PlaceGiven(csize, size, extra) ==
    /\ csize # size \/ extra > 0
    /\ FirstPlaceOn(givenCandidates(points, csize, extra), size)

\* greedyPlaceInternal(candidates, points) on the candidates of the points at
\* a size.
PlaceInternal(size) ==
    LET res == greedyPlaceInternal(generateLabelCandidates(points, size), points)
    IN  /\ fn.op = "none"
        /\ fn' = [op |-> "internal", size |-> size, steps |-> res.steps]
        /\ candidates' = res.candidates
        /\ placed' = res.placed
        /\ UNCHANGED << points, state, thr, probes, rows, pre >>

\* The cell sizes of the point grids that are queried on their own (0.0175
\* and 0.16: cells smaller and larger than every label).
GridCellSizes == {7, 64}

\* PointGrid(points, cs).anyInside(r, ignoreIdx) for the rectangle r of a
\* candidate, ignoring its own point or none.
AnyInside(cs, r, ignoreIdx) ==
    Applied([op |-> "anyInside", cs |-> cs, r |-> r, ignoreIdx |-> ignoreIdx,
             res |-> anyInside(points, cs, r, ignoreIdx)])

FnNext ==
    \/ \E i \in DOMAIN points, sx \in {-1, 1}, sy \in {-1, 1} : Clearance(i, sx, sy)
    \/ Corners
    \/ \E size \in FnSizes :
          \E k \in 0 .. (perPoint * Size(points) - 1) :
              AABBOf(generateLabelCandidates(points, size)[k])
    \/ \E size \in FnSizes : FirstPlace(size)
    \/ \E csize \in GivenSizes, size \in FnSizes, extra \in 0 .. MaxExtra :
          PlaceGiven(csize, size, extra)
    \/ \E size \in FnSizes : PlaceInternal(size)
    \/ \E cs \in GridCellSizes, size \in FnSizes :
          \E k \in 0 .. (perPoint * Size(points) - 1), own \in BOOLEAN :
              AnyInside(cs, getAABB(generateLabelCandidates(points, size)[k]),
                        IF own THEN k \div perPoint ELSE -1)

SpecFn == FnInit /\ [][FnNext]_vars


\* ------------------------------------------------- RectGrid, QuadRectIndex
\* A RectGrid and a QuadRectIndex that are given the same rectangles and
\* asked the same question.  The world of the quadtree is [0, 0.16]^2, the
\* cells of the grid are 0.04 wide, the rectangles are squares of side 0.04:
\* within one child of a node, across the midlines, on the border of the world
\* and outside it.
World == [xmin |-> 0, ymin |-> 0, xmax |-> 64, ymax |-> 64]
IndexCell == 16
IndexRects ==
    { [xmin |-> x, ymin |-> y, xmax |-> x + 16, ymax |-> y + 16] :
        x \in {-32, 0, 24, 48}, y \in {-32, 0, 24, 48} }

NoIndex == [op |-> "index", rects |-> << >>, tree |-> newQuadTree, asked |-> FALSE]

IndexInit ==
    /\ points = EmptyVec
    /\ candidates = EmptyVec
    /\ state = DefaultState
    /\ placed = << >>
    /\ thr = NoSearch
    /\ probes = {}
    /\ rows = EmptyVec
    /\ fn = NoIndex
    /\ pre = NoCall

\* rg.insert(r) and quad.insert(r).
IndexInsert(r) ==
    /\ Len(fn.rects) < MaxRects
    /\ fn' = [op |-> "index", rects |-> Append(fn.rects, r),
              tree |-> insertRec(fn.tree, World, << >>, r), asked |-> FALSE]
    /\ UNCHANGED << points, candidates, state, placed, thr, probes, rows, pre >>

\* rg.overlapsAny(r) and quad.overlapsAny(r).
IndexOverlapsAny(r) ==
    /\ fn' = [op |-> "index", rects |-> fn.rects, tree |-> fn.tree, asked |-> TRUE,
              q |-> r,
              grid |-> overlapsAny(fn.rects, IndexCell, r),
              quad |-> overlapsAnyRec(fn.tree, World, << >>, r)]
    /\ UNCHANGED << points, candidates, state, placed, thr, probes, rows, pre >>

IndexNext == \E r \in IndexRects : IndexInsert(r) \/ IndexOverlapsAny(r)

SpecIndex == IndexInit /\ [][IndexNext]_vars


\* ================================================================ claims
\* The spec's geometry, stated on its own (section 4.1 of the spec).
\* Two rectangles share an interior point.  Coordinates are doubled so that
\* midpoints are integers; if open intervals meet, the midpoint of a lower and
\* an upper end of theirs lies in both.
InteriorsMeet(a, b) ==
    \E x \in { lo + hi : lo \in {a.xmin, b.xmin}, hi \in {a.xmax, b.xmax} },
       y \in { lo + hi : lo \in {a.ymin, b.ymin}, hi \in {a.ymax, b.ymax} } :
        /\ 2 * a.xmin < x /\ x < 2 * a.xmax /\ 2 * b.xmin < x /\ x < 2 * b.xmax
        /\ 2 * a.ymin < y /\ y < 2 * a.ymax /\ 2 * b.ymin < y /\ y < 2 * b.ymax
StrictlyInside(r, pt) ==
    r.xmin < pt[1] /\ pt[1] < r.xmax /\ r.ymin < pt[2] /\ pt[2] < r.ymax
ValidIdx == { k \in DOMAIN candidates : candidates[k].valid }
LabeledPoints == { k \div perPoint : k \in ValidIdx }

\* C1: after every call the rectangles of the valid candidates, and equally the
\* returned rectangles, are pairwise non-overlapping in their open interiors.
C1_NoOverlap ==
    /\ \A a, b \in ValidIdx :
          a # b => ~InteriorsMeet(getAABB(candidates[a]), getAABB(candidates[b]))
    /\ \A i, j \in DOMAIN placed :
          i # j => ~InteriorsMeet(placed[i], placed[j])
\* Two labels that share an edge are both valid after a call on a used state.
C1_Witness ==
    /\ pre.calls = 2
    /\ \E a, b \in ValidIdx :
          /\ a # b
          /\ getAABB(candidates[a]).xmax = getAABB(candidates[b]).xmin
          /\ getAABB(candidates[a]).ymin = getAABB(candidates[b]).ymin
    /\ Len(placed) = 2

\* C2: after every call no rectangle of a valid candidate strictly contains a
\* point of the current point sequence other than its own anchor point.
C2_NoOcclusion ==
    \A k \in ValidIdx : \A q \in DOMAIN points :
        q # k \div perPoint => ~StrictlyInside(getAABB(candidates[k]), points[q])
\* A point is left without label because its rectangle would cover the other
\* point, whose label is valid.
C2_Witness ==
    /\ pre.calls = 2
    /\ \E p, q \in DOMAIN points :
          /\ p # q
          /\ p \notin LabeledPoints
          /\ q \in LabeledPoints
          /\ StrictlyInside(getAABB(candidates[perPoint * p]), points[q])

\* C3: after every call every point has 0 or 1 valid candidates among its 4,
\* and no point owns two active indices.
C3_AtMostOne ==
    /\ \A p \in DOMAIN points :
          Cardinality({ k \in ValidIdx : k \div perPoint = p }) <= 1
    /\ \A i, j \in DOMAIN state.active :
          i # j => state.active[i] \div perPoint # state.active[j] \div perPoint
\* A call with a growth pass after a retention pass that kept a label: one
\* point retained, the other added.
C3_Witness ==
    /\ pre.same
    /\ state.lastBase < pre.lastBase
    /\ Cardinality(pre.valid) = 1
    /\ Cardinality(ValidIdx) = 2
    /\ pre.valid \subseteq ValidIdx

\* Two consecutive calls on the same non-empty point sequence.
SamePointsAgain == pre.same /\ Size(points) > 0
PrevLabeledPoints == { k \div perPoint : k \in pre.valid }

\* C4: when the second of two consecutive calls on the same non-empty point
\* sequence finds the state initialized and has a size not below lastBase, the
\* points labeled after it are among the points labeled after the first call.
C4_NoGrowth ==
    SamePointsAgain /\ pre.lastBase >= 0 /\ state.lastBase >= pre.lastBase
        => LabeledPoints \subseteq PrevLabeledPoints
\* A larger size at which a previous label is dropped and the other retained.
C4_Witness ==
    /\ SamePointsAgain
    /\ state.lastBase > pre.lastBase
    /\ Cardinality(PrevLabeledPoints) = 2
    /\ Cardinality(LabeledPoints) = 1

\* C5: when the second of two consecutive calls on the same non-empty point
\* sequence has a size strictly below lastBase, every point labeled after the
\* first call is labeled after it, and every active index stays active.
C5_RetainsAll ==
    SamePointsAgain /\ state.lastBase < pre.lastBase
        => /\ PrevLabeledPoints \subseteq LabeledPoints
           /\ pre.active \subseteq Range(state.active)
\* A smaller size at which the previous label is retained and the point that
\* had none gets one.
C5_Witness ==
    /\ SamePointsAgain
    /\ state.lastBase < pre.lastBase
    /\ Cardinality(PrevLabeledPoints) = 1
    /\ PrevLabeledPoints \subseteq LabeledPoints
    /\ Cardinality(LabeledPoints) = 2
    /\ pre.active # {}

\* C6 as stated: after a call at size s0 that left the active set A, a call at
\* a smaller size s1 < s0 on the same points leaves an active set within A.
C6_SmallerSizeOnlyDrops ==
    SamePointsAgain /\ pre.lastBase >= 0 /\ state.lastBase < pre.lastBase
        => Range(state.active) \subseteq pre.active
\* C6 amended: after a call at size s0 that left the active set A, a call at a
\* larger size s1 > s0 on the same points leaves an active set within A.
C6_LargerSizeOnlyDrops ==
    SamePointsAgain /\ pre.lastBase >= 0 /\ state.lastBase > pre.lastBase
        => Range(state.active) \subseteq pre.active
\* A larger size at which one of two active indices, that of a candidate with
\* corner TR, stays and the other drops.
C6_Witness ==
    /\ SamePointsAgain
    /\ state.lastBase > pre.lastBase
    /\ Cardinality(pre.active) = 2
    /\ Cardinality(Range(state.active)) = 1
    /\ \E k \in Range(state.active) : k % perPoint = 1

\* What a call on an Uninitialized state leaves for the current points and size.
FreshOutcomes ==
    LET gen == generateLabelCandidates(points, state.lastBase)
    IN  { greedyPlaceMonotone(gen, points, state.lastBase, DefaultState, order) :
            order \in growthOrders(gen, points, state.lastBase, DefaultState) }
Outcome == [candidates |-> candidates, state |-> state, placed |-> placed]

\* C7 as stated: a call whose point count differs from that of the previous
\* call on the state works as on an Uninitialized state: no previous active
\* index is retained, the growth pass runs, the corners are chosen anew.
C7_CountChangeResets ==
    pre.calls > 0 /\ pre.n # Size(points) /\ Size(points) > 0
        => Outcome \in FreshOutcomes

\* C8 as stated: after every call fixedCorner holds, for each point of the
\* sequence passed to the call, the corner the clearance heuristic selects.
C8_CornersOfCurrentPoints ==
    Size(points) > 0 => state.fixedCorner = fixedCornerTable[points]

\* The alive mask and the chosen corners of an oracle result.
Answer(out) == [aliveOut |-> out.aliveOut, chosenCorner |-> out.chosenCorner]
\* The last oracle call, to which the candidates and the state are due.
LastAnswer == Answer(oracleResult(Outcome, Size(points)))
\* The answers runAtScale gives for the points and the size of the last call
\* as the first call of a process.
FirstCallAnswers ==
    { Answer(out) : out \in runAtScale(points, state.lastBase, DefaultState) }

\* C9 as stated: the answer of runAtScale(pts, S) is one it gives for (pts, S)
\* as the first call of a process, whatever was probed before.
C9_OracleStateless ==
    pre.calls > 0 /\ Size(points) > 0 => LastAnswer \in FirstCallAnswers

\* Some oracle run at size S, in the process of the search as it stands or in
\* a new process, has point i alive (dead).
AliveAt(i, S) ==
    \E out \in runAtScale(points, S, state) \cup runAtScale(points, S, DefaultState) :
        out.aliveOut[i] = 1
DeadAt(i, S) ==
    \E out \in runAtScale(points, S, state) \cup runAtScale(points, S, DefaultState) :
        out.aliveOut[i] = 0

\* C10 as stated: when the search is done, every point is alive at the size
\* reported for it less e and dead at that size plus e, for e above eps.
C10_ThresholdSeparates ==
    thr.pc = "done" =>
        \A i \in DOMAIN points : \A e \in { thr.eps + 1, thr.eps + 2 } :
            /\ AliveAt(i, thr.r.size[i] - e)
            /\ DeadAt(i, thr.r.size[i] + e)

\* Some oracle run of the search at size S had point i alive.
SeenAliveAt(i, S) == \E pr \in probes : pr.S = S /\ pr.aliveOut[i] = 1
SeenAlive(i) == \E pr \in probes : pr.aliveOut[i] = 1

\* C11 as stated: the size the search returns for a point is a size at which
\* one of its oracle runs had the point alive.
C11_ReportedSizeWasFeasible ==
    thr.pc = "done" => \A i \in DOMAIN points : SeenAliveAt(i, thr.r.size[i])

\* C12 as stated: a point alive in no oracle run is written with side INF and
\* size 0, and a finite side is written only for a point that was alive in
\* some run.
C12_NoLabelWrittenAsInf ==
    thr.pc = "written" =>
        \A i \in DOMAIN points :
            /\ ~SeenAlive(i) => rows[i].side = INF /\ rows[i].size = 0
            /\ rows[i].side # INF => SeenAlive(i)

\* C15 as stated: the four candidates of every point carry the four distinct
\* corners, also after a placement call on the list.
C15_FourDistinctCorners ==
    \A p \in DOMAIN points :
        { candidates[p * perPoint + j].corner : j \in 0 .. (perPoint - 1) } = 0 .. (perPoint - 1)

\* The rectangle of candidate k after the call covers a foreign point, or
\* meets the rectangle of a previously active, retained label of smaller index.
BlockedAtNewSize(k) ==
    \/ \E q \in DOMAIN points :
          q # k \div perPoint /\ StrictlyInside(getAABB(candidates[k]), points[q])
    \/ \E j \in pre.active :
          /\ j < k
          /\ j \in ValidIdx
          /\ InteriorsMeet(getAABB(candidates[j]), getAABB(candidates[k]))

\* C19: after a call on the unchanged point sequence, a label that was active
\* before the call is absent exactly if its rectangle at the new size strictly
\* contains a foreign point or overlaps a retained previously active label of
\* smaller candidate index.
C19_RemovedOnlyWhenInfeasible ==
    SamePointsAgain => \A k \in pre.active : (k \notin ValidIdx) <=> BlockedAtNewSize(k)
\* At a larger size the label of larger index is removed because it would
\* overlap the retained label of smaller index, and covers no point.
C19_Witness ==
    /\ SamePointsAgain
    /\ \E k \in pre.active :
          /\ k \notin ValidIdx
          /\ \A q \in DOMAIN points : ~StrictlyInside(getAABB(candidates[k]), points[q])
          /\ \E j \in pre.active \cap ValidIdx : j < k

\* The fixed-corner rectangle of point p covers a foreign point or meets the
\* rectangle of a valid candidate.
BlockedPoint(p) ==
    \/ \E q \in DOMAIN points :
          q # p /\ StrictlyInside(getAABB(candidates[p * perPoint]), points[q])
    \/ \E k \in ValidIdx :
          InteriorsMeet(getAABB(candidates[k]), getAABB(candidates[p * perPoint]))
GrowthPassRan ==
    pre.calls > 0 /\ Size(points) > 0 /\ (pre.lastBase < 0 \/ state.lastBase < pre.lastBase)

\* C20: after a call in which the growth pass ran (lastBase was negative or
\* above the new size), every point without label has a fixed-corner rectangle
\* that strictly contains a foreign point or overlaps an accepted rectangle.
C20_MaximalForFixedCorners ==
    GrowthPassRan => \A p \in DOMAIN points : p \notin LabeledPoints => BlockedPoint(p)
\* The growth pass ran on a used state, labeled one point and left the other
\* without label.
C20_Witness ==
    /\ GrowthPassRan
    /\ pre.lastBase >= 0
    /\ \E p, q \in DOMAIN points : p \notin LabeledPoints /\ q \in LabeledPoints /\ BlockedPoint(p)

\* The number of sweep runs the code allows itself: none without multiSample,
\* the count passed when it is positive, else the automatic count.
SweepRunsAllowed ==
    IF ~thr.multiSample THEN 0
    ELSE IF thr.samplesPassed > 0 THEN thr.samplesPassed
    ELSE IF ceilLogRatio(thr.Smin, thr.Smax, thr.growth) > MinAutoSamples
         THEN ceilLogRatio(thr.Smin, thr.Smax, thr.growth) ELSE MinAutoSamples
\* No growth run was at a size above Smax, and the growth loop is entered only
\* with a point alive.
GrowthWithinRange ==
    /\ \A pr \in probes : pr.phase = "growth" => pr.S <= thr.Smax
    /\ thr.pc = "growth" => \E i \in DOMAIN thr.alive : thr.alive[i] = 1
SearchWithinLimits ==
    /\ thr.r.sweepRuns <= SweepRunsAllowed
    /\ thr.r.growthRuns <= thr.maxGrowth
    /\ thr.r.refineRuns <= thr.maxRefine
    /\ GrowthWithinRange
SearchWithinPassedLimits ==
    /\ thr.r.sweepRuns <= thr.samplesPassed
    /\ thr.r.growthRuns <= thr.maxGrowth
    /\ thr.r.refineRuns <= thr.maxRefine
    /\ GrowthWithinRange

\* C17 as stated: for every behaviour of the oracle the search returns, after
\* at most multiSamples sweep runs, maxGrowth growth runs and maxRefine
\* refinement runs; the growth phase probes no size above Smax and ends once no
\* point is alive.
C17_WithinPassedCounts == [] SearchWithinPassedLimits /\ <> (thr.pc = "done")

\* C17, amended: the same with the sweep runs bounded by multiSamples when it
\* is positive and by max(8, ceil(log(Smax/Smin)/log(growth))) when it is not
\* (and by 0 without multiSample).
C17_SearchTerminates == [] SearchWithinLimits /\ <> (thr.pc = "done")
\* A search with the automatic sweep count that has returned after using every
\* run it was allowed.
C17_Witness ==
    /\ thr.pc = "done"
    /\ thr.multiSample
    /\ thr.samplesPassed = 0
    /\ thr.r.sweepRuns = MinAutoSamples
    /\ thr.r.growthRuns = thr.maxGrowth
    /\ thr.r.refineRuns = thr.maxRefine
    /\ thr.maxRefine = MaxRefine

\* The least min(|dx|, |dy|) over the points q # i strictly inside the orthant
\* (sx, sy) of point i, INF when there is none.
InOrthant(i, sx, sy) ==
    { q \in DOMAIN points \ {i} :
        (points[q][1] - points[i][1]) * sx > 0 /\ (points[q][2] - points[i][2]) * sy > 0 }
ChebyshevTo(i, q) ==
    Min2(Abs(points[q][1] - points[i][1]), Abs(points[q][2] - points[i][2]))
TrueClearance(i, sx, sy) ==
    IF InOrthant(i, sx, sy) = {} THEN INF
    ELSE CHOOSE v \in { ChebyshevTo(i, q) : q \in InOrthant(i, sx, sy) } :
             \A q \in InOrthant(i, sx, sy) : v <= ChebyshevTo(i, q)

\* C13 as stated: orthantClearanceGrid returns the minimum of min(|dx|, |dy|)
\* over all other points strictly inside the orthant, infinity when there is
\* none.
C13_ClearanceIsMinimum ==
    fn.op = "clearance" => fn.res = TrueClearance(fn.i, fn.sx, fn.sy)

\* The clearance the code computes for point i in the quadrant of corner c.
Computed(i, c) ==
    orthantClearanceGrid(points, CornerCell, i, points[i][1], points[i][2],
                         signX(c), signY(c))
\* The first quadrant of infinite computed clearance, else the first among
\* those of the largest computed clearance.
WinningQuadrant(i) ==
    IF \E c \in 0 .. 3 : Computed(i, c) = INF
    THEN CHOOSE c \in 0 .. 3 :
             Computed(i, c) = INF /\ \A d \in 0 .. (c - 1) : Computed(i, d) # INF
    ELSE CHOOSE c \in 0 .. 3 :
             /\ \A d \in 0 .. 3 : Computed(i, d) <= Computed(i, c)
             /\ \A d \in 0 .. (c - 1) : Computed(i, d) < Computed(i, c)

\* C14: chooseFixedCornersByConflicts gives every point the first quadrant (in
\* the order TL, TR, BR, BL) whose computed clearance is infinite, else the
\* first of those with the largest computed clearance; a single point gets
\* TopLeft, and a first placement leaves it exactly one valid candidate.
C14_QuadrantOfMaxClearance ==
    /\ fn.op = "corners" => \A i \in DOMAIN points : fn.res[i] = WinningQuadrant(i)
    /\ fn.op = "place" /\ Size(points) = 1
           => /\ state.fixedCorner[0] = 0
              /\ Cardinality(ValidIdx) = 1
              /\ \A k \in ValidIdx : candidates[k].corner = 0
\* A point with a finite clearance in every quadrant gets a quadrant other than
\* TopLeft whose clearance a later quadrant equals.
C14_Witness ==
    /\ fn.op = "corners"
    /\ \E i \in DOMAIN points :
          /\ \A c \in 0 .. 3 : Computed(i, c) # INF
          /\ fn.res[i] > 0
          /\ \E c \in (fn.res[i] + 1) .. 3 : Computed(i, c) = Computed(i, fn.res[i])

\* The quadrants of the corner codes 0..3 as the claim lists them.
Quadrants == << << -1, -1 >>, << 1, -1 >>, << 1, 1 >>, << -1, 1 >> >>

\* C16: getAABB(c) is a square of side c.size with the anchor at a vertex, and
\* for each corner code it extends from the anchor into the quadrant (0: -x,-y;
\* 1: +x,-y; 2: +x,+y; 3: -x,+y) whose sign pair the heuristic passes to the
\* clearance for that code.
C16_CornerConvention ==
    fn.op = "getAABB" =>
        LET q == Quadrants[fn.c.corner + 1]
        IN  /\ signX(fn.c.corner) = q[1]
            /\ signY(fn.c.corner) = q[2]
            /\ fn.res.xmax - fn.res.xmin = fn.c.size
            /\ fn.res.ymax - fn.res.ymin = fn.c.size
            /\ {fn.res.xmin, fn.res.xmax} = {fn.c.anchor[1], fn.c.anchor[1] + q[1] * fn.c.size}
            /\ {fn.res.ymin, fn.res.ymax} = {fn.c.anchor[2], fn.c.anchor[2] + q[2] * fn.c.size}
\* The rectangle of a BottomLeft candidate: left of the anchor and above it.
C16_Witness ==
    /\ fn.op = "getAABB"
    /\ fn.c.corner = 3
    /\ fn.c.anchor = << 20, 10 >>
    /\ fn.res = [xmin |-> 4, ymin |-> 10, xmax |-> 20, ymax |-> 26]

\* Every two distinct points are at least twice the size of the first
\* placement apart in x or in y.
FarApart ==
    \A i, j \in DOMAIN points :
        i # j => \/ Abs(points[i][1] - points[j][1]) >= 2 * fn.size
                 \/ Abs(points[i][2] - points[j][2]) >= 2 * fn.size

\* C18: after a call on a default state with points that are pairwise at least
\* 2 * size apart in x or in y, every point has exactly one valid candidate.
C18_AllLabeledWhenFarApart ==
    fn.op = "place" /\ FarApart =>
        \A p \in DOMAIN points :
            Cardinality({ k \in ValidIdx : k \div perPoint = p }) = 1
\* The four corners of a square of side 40 at size 16 (the unit grid at size
\* 0.4), and four labels.
C18_Witness ==
    /\ fn.op = "place"
    /\ fn.size = 16
    /\ Size(points) = 4
    /\ FarApart
    /\ Cardinality(ValidIdx) = 4
    /\ Cardinality(Range(placed)) = 4

\* The points p and q have the same density at the size of the last call.
SameDensity(p, q) ==
    localCount(points, state.lastBase, points[p][1], points[p][2])
        = localCount(points, state.lastBase, points[q][1], points[q][2])
\* The order o visits points of equal density in ascending index.
AscendingOnTies(o) ==
    \A a, b \in DOMAIN o : a < b /\ SameDensity(o[a], o[b]) => o[a] < o[b]
\* The results of the first call of a process whose growth pass visits the
\* points of equal density in ascending index.
IndexOrderOutcomes ==
    LET gen == generateLabelCandidates(points, state.lastBase)
    IN  { greedyPlaceMonotone(gen, points, state.lastBase, DefaultState, order) :
            order \in { o \in growthOrders(gen, points, state.lastBase, DefaultState) :
                          AscendingOnTies(o) } }

\* C21 as stated: the placement pass visits points of equal density in
\* ascending index, so that the first call of a process on given points and a
\* given size leaves the one result of that order.
C21_TiesVisitedByIndex ==
    pre.calls = 1 /\ Size(points) > 0 => Outcome \in IndexOrderOutcomes

\* C22: a call with the points and the size of the previous call on the state
\* that call left changes neither the set of active indices nor a valid flag
\* nor fixedCorner, usedOnce or lastBase.
C22_IdempotentAtRepeatedSize ==
    pre.same /\ state.lastBase = pre.lastBase =>
        /\ Range(state.active) = pre.active
        /\ ValidIdx = pre.valid
        /\ state.fixedCorner = pre.fixedCorner
        /\ state.usedOnce = pre.usedOnce
\* The size of two points is repeated with one of them labeled and the other
\* left without label.
C22_Witness ==
    /\ pre.same
    /\ state.lastBase = pre.lastBase
    /\ Size(points) = 2
    /\ Cardinality(pre.valid) = 1
    /\ Cardinality(ValidIdx) = 1
    /\ state.usedOnce = pre.usedOnce

\* The points that had an active label before the last call.
PrevActivePoints == { k \div perPoint : k \in pre.active }

\* C23: after every call state.active lists, without duplicates, exactly the
\* indices of the valid candidates, each the candidate of the fixed corner of
\* its point; the returned vector has the length of state.active and its k-th
\* rectangle is that of candidate active[k]; the labels retained from the
\* previous call come before the newly added ones.
C23_ActiveListsValidLabels ==
    pre.calls > 0 =>
        /\ \A a, b \in DOMAIN state.active :
               a # b => state.active[a] # state.active[b]
        /\ Range(state.active) = ValidIdx
        /\ \A k \in DOMAIN state.active :
               LET p == state.active[k] \div perPoint
               IN  /\ p \in DOMAIN points
                   /\ state.active[k] = perPoint * p + state.fixedCorner[p]
        /\ Len(placed) = Len(state.active)
        /\ \A k \in DOMAIN state.active :
               placed[k] = getAABB(candidates[state.active[k]])
        /\ \A a, b \in DOMAIN state.active :
               a < b /\ state.active[b] \div perPoint \in PrevActivePoints
                   => state.active[a] \div perPoint \in PrevActivePoints
\* A call retains the label of point 1 and adds that of point 0, so that the
\* active list is not in ascending order and the two rectangles differ.
C23_Witness ==
    /\ pre.calls = 2
    /\ Len(state.active) = 2
    /\ state.active[1] \div perPoint = 1
    /\ state.active[2] \div perPoint = 0
    /\ PrevActivePoints = {1}
    /\ placed[1] # placed[2]

\* C24 as stated: after each call usedOnce is set for every point the call
\* labeled, and a flag that was set before the call, for a point that is still
\* among the points of the call, is set after it.
C24_UsedOnceIsPermanent ==
    pre.calls > 0 =>
        /\ \A p \in LabeledPoints : state.usedOnce[p] = 1
        /\ \A p \in DOMAIN pre.usedOnce \cap DOMAIN points :
               pre.usedOnce[p] = 1 => /\ p \in DOMAIN state.usedOnce
                                      /\ state.usedOnce[p] = 1

\* C28: a call changes only the valid, size and corner fields of the
\* candidates it was given: their number and order, the anchor and the weight
\* of each are as given, and every candidate has the size of the call.
C28_OnlyValidSizeCornerChange ==
    fn.op = "place" =>
        /\ DOMAIN candidates = DOMAIN fn.given
        /\ \A k \in DOMAIN candidates :
               /\ candidates[k].anchor = fn.given[k].anchor
               /\ candidates[k].weight = fn.given[k].weight
               /\ candidates[k].size = fn.size
\* Candidates made for another size: the call changes the size of all, the
\* corner of some and the valid flag of two.
C28_Witness ==
    /\ fn.op = "place"
    /\ Size(points) = 2
    /\ Size(fn.given) = perPoint * Size(points)
    /\ \A k \in DOMAIN fn.given : fn.given[k].size # fn.size
    /\ \E k \in DOMAIN candidates : candidates[k].corner # fn.given[k].corner
    /\ Cardinality(ValidIdx) = 2

\* C29 as stated, for a list that does not hold four candidates per point
\* and a positive size (which leaves nothing to clamp): the call is rejected,
\* no candidate and no state field is modified.
C29_MismatchRejectedUnmodified ==
    fn.op = "place" /\ Size(fn.given) # perPoint * Size(points)
        => candidates = fn.given /\ state = DefaultState

\* The candidates of point pid that contain no other point and overlap none
\* of the rectangles rg, in greedyPlaceInternal at the size fn.size.
FeasibleFor(pid, rg) ==
    { k \in DOMAIN candidates :
        /\ k \div perPoint = pid
        /\ ~anyInside(points, fn.size, getAABB(candidates[k]), pid)
        /\ ~overlapsAny(rg, fn.size, getAABB(candidates[k])) }

\* C25 as stated: for every point greedyPlaceInternal visits that has a
\* feasible candidate, the accepted candidate is feasible and no feasible
\* candidate of the point has a larger minGapToAny to the rectangles accepted
\* before.
C25_AcceptedMaximizesGap ==
    fn.op = "internal" =>
        \A n \in DOMAIN fn.steps :
            LET pid == fn.steps[n].pid
                rg == fn.steps[n].rg
                idx == fn.steps[n].idx
            IN  FeasibleFor(pid, rg) # {} =>
                    /\ idx \in FeasibleFor(pid, rg)
                    /\ \A k \in FeasibleFor(pid, rg) :
                           minGapToAny(rg, fn.size, getAABB(candidates[k]))
                               <= minGapToAny(rg, fn.size, getAABB(candidates[idx]))

\* C26: whatever the cell size, PointGrid.anyInside answers true exactly when
\* some point other than the excluded one lies strictly inside the
\* rectangle, as a scan over all points does.
C26_AnyInsideIsFullScan ==
    fn.op = "anyInside" =>
        (fn.res <=> \E idx \in DOMAIN points :
                        idx # fn.ignoreIdx /\ StrictlyInside(fn.r, points[idx]))
\* With cells of 0.0175 the rectangle of a label of size 0.05 spans several
\* cells; a point other than the excluded one lies inside, beyond the first
\* cell of the rectangle in x and in y.
C26_Witness ==
    /\ fn.op = "anyInside"
    /\ fn.cs = 7
    /\ fn.r.xmax - fn.r.xmin = 20
    /\ fn.ignoreIdx >= 0
    /\ fn.res
    /\ \E idx \in DOMAIN points :
           /\ idx # fn.ignoreIdx
           /\ StrictlyInside(fn.r, points[idx])
           /\ cellOf(points[idx][1], fn.cs) > cellOf(fn.r.xmin, fn.cs)
           /\ cellOf(points[idx][2], fn.cs) > cellOf(fn.r.ymin, fn.cs)

\* The brackets and the reported sizes of t are within those of s: no lower
\* bound and no reported size is smaller, no upper bound is larger.
Tightened(s, t) ==
    \A i \in DOMAIN s.iv :
        /\ t.iv[i].lo >= s.iv[i].lo
        /\ t.iv[i].hi <= s.iv[i].hi
        /\ t.r.size[i] >= s.r.size[i]

\* C30 as stated: every oracle run of computeZoomThresholds, in the sweep, in
\* the growth phase and in the refinement, leaves each point's lower bound and
\* reported size no smaller and its upper bound no larger than before.
C30_BracketsOnlyTighten ==
    [][thr.pc \in {"sweep", "growth", "refine"} => Tightened(thr, thr')]_vars

\* C27 as stated: for every sequence of inserted rectangles and every query
\* rectangle, RectGrid.overlapsAny and QuadRectIndex.overlapsAny give the
\* same answer, true exactly when an inserted rectangle and the query share
\* an interior point, wherever the rectangles lie.
C27_IndexesAgree ==
    fn.op = "index" /\ fn.asked =>
        /\ fn.grid = fn.quad
        /\ fn.quad <=> \E k \in DOMAIN fn.rects : InteriorsMeet(fn.rects[k], fn.q)

====
